---------------------------- MODULE Spec2Model ----------------------------
(***************************************************************************)
(* check_scsi_smart v1.2.2: a Nagios check that reads the SMART telemetry  *)
(* of an ATA disk through SCSI ATA PASS-THROUGH commands and classifies    *)
(* it.  The model follows main() of check_scsi_smart.cc step by step, with *)
(* the helpers of smart.cc / smart.h / endian.h as operators.              *)
(*                                                                         *)
(* 64-bit quantities (raw attribute values, operator thresholds) are kept  *)
(* as four 16-bit limbs, least significant first, so that no width is lost *)
(* to the model checker's integers.  32-bit fields are two such limbs.     *)
(* Strings are sequences of one-character strings.                         *)
(***************************************************************************)
EXTENDS Integers, Sequences, FiniteSets, TLC

VARIABLES
  pc,                  \* position of main()
  argv,                \* the options on the command line, in order
  optind,              \* index of the next option getopt_long will return
  device,              \* const char* device ("NULL" when unset)
  warning,             \* const char* warning (string given to -w, default "")
  critical,            \* const char* critical (string given to -c, default "")
  warning_thresholds,  \* SmartThresholdMap built from warning
  critical_thresholds, \* SmartThresholdMap built from critical
  fd,                  \* the device handle: "unopened", "failed", "open", "closed"
  sg_version,          \* result of the SG_GET_VERSION_NUM ioctl
  calls,               \* the transport calls issued so far (sgio), in order
  identify,            \* uint16_t identify[256], words 82 and 85
  sd,                  \* smart_data sd, its 30 attribute slots
  st,                  \* smart_thresholds st, its 30 threshold slots
  i,                   \* loop index of check_smart_attributes
  prdfail, advisory, crit, warn,  \* the four counters
  code,                \* int code, the severity so far
  logs,                \* int logs, the error count
  perfdata,            \* entries written to the perfdata stream
  smart_log_sectors,   \* directory entry for the SMART summary log
  summaries,           \* smart_log_summary[smart_log_sectors]
  stdout,              \* what was printed on standard output
  stderr,              \* what was printed on standard error
  exit_code            \* the process exit status ("running" until it ends)

vars == <<pc, argv, optind, device, warning, critical, warning_thresholds,
          critical_thresholds, fd, sg_version, calls, identify, sd, st, i,
          prdfail, advisory, crit, warn, code, logs, perfdata,
          smart_log_sectors, summaries, stdout, stderr, exit_code>>

---------------------------------------------------------------------------
(* Program constants *)

NAGIOS_OK == 0
NAGIOS_WARNING == 1
NAGIOS_CRITICAL == 2
NAGIOS_UNKNOWN == 3
SECTOR_SIZE == 512
SMART_ATTRIBUTE_NUM == 30
SBC_ATA_PASS_THROUGH == 133
ATA_IDENTIFY_DEVICE == 236
ATA_SMART == 176
ATA_PROTOCOL_PIO_DATA_IN == 4
ATA_TRANSFER_DIRECTION_FROM_DEVICE == 1
ATA_TRANSFER_SIZE_BLOCK == 1
ATA_TRANSFER_TYPE_SECTOR == 0
ATA_TRANSFER_LENGTH_COUNT == 2
ATA_LOG_ADDRESS_DIRECTORY == 0
ATA_LOG_ADDRESS_SMART == 1
SMART_READ_DATA == 208
SMART_READ_THRESHOLDS == 209
SMART_READ_LOG == 213
SG_MIN_VERSION == 30000
EXIT_USAGE == 1
EXIT_INFO == 0

(* Bounds of the model *)

MaxArgs == 2
MaxLogSectors == 2

Max(a, b) == IF a > b THEN a ELSE b

---------------------------------------------------------------------------
(* 64-bit unsigned arithmetic on 16-bit limbs, least significant first *)

Limb == 2^16

U64Zero == <<0, 0, 0, 0>>

U64Small(n) == <<n % Limb, n \div Limb, 0, 0>>

U64IsZero(a) == a = U64Zero

U64Geq(a, b) ==
  IF a[4] # b[4] THEN a[4] > b[4]
  ELSE IF a[3] # b[3] THEN a[3] > b[3]
  ELSE IF a[2] # b[2] THEN a[2] > b[2]
  ELSE a[1] >= b[1]

\* (2^64 - a) mod 2^64: the bits of -a as an unsigned long
U64Neg(a) ==
  LET n1 == (Limb - 1 - a[1]) + 1
      n2 == (Limb - 1 - a[2]) + (n1 \div Limb)
      n3 == (Limb - 1 - a[3]) + (n2 \div Limb)
      n4 == (Limb - 1 - a[4]) + (n3 \div Limb)
  IN <<n1 % Limb, n2 % Limb, n3 % Limb, n4 % Limb>>

\* a * 10 + d, with the carry out of bit 63 reported
U64MulAdd10(a, d) ==
  LET t1 == a[1] * 10 + d
      t2 == a[2] * 10 + (t1 \div Limb)
      t3 == a[3] * 10 + (t2 \div Limb)
      t4 == a[4] * 10 + (t3 \div Limb)
  IN [val |-> <<t1 % Limb, t2 % Limb, t3 % Limb, t4 % Limb>>,
      carry |-> t4 \div Limb # 0]

LONG_MAX_BITS == <<65535, 65535, 65535, 32767>>
LONG_MIN_BITS == <<0, 0, 0, 32768>>

(* int: 32 bits in two's complement, as two 16-bit limbs while it is added to *)

\* the bits of an int
Int32Bits(n) ==
  IF n >= 0 THEN <<n % Limb, n \div Limb>>
  ELSE LET m == (n + 2147483647) + 1
       IN <<m % Limb, (m \div Limb) + 32768>>

\* the int that 32 bits stand for
Int32Value(b) ==
  IF b[2] >= 32768 THEN (b[2] - Limb) * Limb + b[1] ELSE b[2] * Limb + b[1]

\* a + b in a 32-bit register: the carry out of bit 31 is dropped
U32Add(a, b) ==
  LET t1 == a[1] + b[1]
      t2 == a[2] + b[2] + (t1 \div Limb)
  IN <<t1 % Limb, t2 % Limb>>

---------------------------------------------------------------------------
(* Strings and the C library calls parse_thresholds relies on *)

Digits == {"0", "1", "2", "3", "4", "5", "6", "7", "8", "9"}

DigitValue(c) ==
  CASE c = "0" -> 0 [] c = "1" -> 1 [] c = "2" -> 2 [] c = "3" -> 3
    [] c = "4" -> 4 [] c = "5" -> 5 [] c = "6" -> 6 [] c = "7" -> 7
    [] c = "8" -> 8 [] c = "9" -> 9

IsSpace(c) == c \in {" ", "\t", "\n"}

Drop(s, n) == SubSeq(s, n + 1, Len(s))

RECURSIVE SkipSpace(_)
SkipSpace(s) ==
  IF s # <<>> /\ IsSpace(Head(s)) THEN SkipSpace(Tail(s)) ELSE s

RECURSIVE ReadDigits(_, _, _)
\* accumulates the decimal digits at the front of s
ReadDigits(s, acc, ovf) ==
  IF s # <<>> /\ Head(s) \in Digits
  THEN LET r == U64MulAdd10(acc, DigitValue(Head(s)))
       IN ReadDigits(Tail(s), r.val, ovf \/ r.carry)
  ELSE [mag |-> acc, ovf |-> ovf, rest |-> s]

\* strtol(s, &p, 10): val is the returned long as 64 bits, rest is what p
\* points at.  With no digits the result is 0 and p is s itself.
strtol(s) ==
  LET t   == SkipSpace(s)
      neg == t # <<>> /\ Head(t) = "-"
      u   == IF t # <<>> /\ Head(t) \in {"-", "+"} THEN Tail(t) ELSE t
      r   == ReadDigits(u, U64Zero, FALSE)
  IN IF r.rest = u
     THEN [val |-> U64Zero, rest |-> s]
     ELSE IF neg
          THEN [val  |-> IF r.ovf \/ (U64Geq(r.mag, LONG_MIN_BITS) /\ r.mag # LONG_MIN_BITS)
                         THEN LONG_MIN_BITS ELSE U64Neg(r.mag),
                rest |-> r.rest]
          ELSE [val  |-> IF r.ovf \/ r.mag[4] >= 32768
                         THEN LONG_MAX_BITS ELSE r.mag,
                rest |-> r.rest]

\* An istringstream: the characters not yet read and the state bits
IStream(s) == [buf |-> s, eof |-> FALSE, fail |-> FALSE]

good(stream) == ~stream.eof /\ ~stream.fail

RECURSIVE IndexOf(_, _, _)
\* position of the first c in s at or after k, 0 when there is none
IndexOf(s, c, k) ==
  IF k > Len(s) THEN 0
  ELSE IF s[k] = c THEN k
  ELSE IndexOf(s, c, k + 1)

\* std::getline(stream, str, delim); old is str before the call
getline(stream, old, delim) ==
  IF ~good(stream)
  THEN [str |-> old, stream |-> [stream EXCEPT !.fail = TRUE]]
  ELSE LET k == IndexOf(stream.buf, delim, 1)
       IN IF k # 0
          THEN [str    |-> SubSeq(stream.buf, 1, k - 1),
                stream |-> [stream EXCEPT !.buf = Drop(stream.buf, k)]]
          ELSE [str    |-> stream.buf,
                stream |-> [buf  |-> <<>>,
                            eof  |-> TRUE,
                            fail |-> stream.buf = <<>>]]

RECURSIVE SplitPairs(_, _)
\* while(getline(in_stream, token1, ',')) tokens.push_back(token1);
SplitPairs(stream, tokens) ==
  LET g == getline(stream, <<>>, ",")
  IN IF g.stream.fail THEN tokens
     ELSE SplitPairs(g.stream, Append(tokens, g.str))

\* thresholds[k] = v on a map<uint8_t, uint64_t>: the key is k truncated to 8 bits
MapStore(thresholds, k, v) ==
  LET key == k[1] % 256
  IN [x \in DOMAIN thresholds \cup {key} |-> IF x = key THEN v ELSE thresholds[x]]

RECURSIVE ParsePairs(_, _)
\* the for loop of parse_thresholds over the tokens
ParsePairs(tokens, thresholds) ==
  IF tokens = <<>> THEN [ok |-> TRUE, thresholds |-> thresholds]
  ELSE LET g1 == getline(IStream(Head(tokens)), <<>>, ":")
           g2 == getline(g1.stream, <<>>, "\n")
           k  == strtol(g1.str)
           v  == strtol(g2.str)
       IN IF ~good(g1.stream) THEN [ok |-> FALSE, thresholds |-> thresholds]
          ELSE IF ~g2.stream.eof THEN [ok |-> FALSE, thresholds |-> thresholds]
          ELSE IF k.rest # <<>> \/ v.rest # <<>>
               THEN [ok |-> FALSE, thresholds |-> thresholds]
          ELSE ParsePairs(Tail(tokens), MapStore(thresholds, k.val, v.val))

\* a slip of parse_thresholds: the failure of an element is not reported
parse_thresholds_Lenient(thresholds, in) ==
  [ok |-> TRUE,
   thresholds |-> ParsePairs(SplitPairs(IStream(in), <<>>), thresholds).thresholds]

\* bool parse_thresholds(SmartThresholdMap& thresholds, const string in)
parse_thresholds(thresholds, in) ==
  ParsePairs(SplitPairs(IStream(in), <<>>), thresholds)

EmptyMap == [x \in {} |-> U64Zero]

---------------------------------------------------------------------------
(* endian.h: StorageEndian::swap as compiled for a little-endian host *)

StorageEndianSwap(t) == t

\* bswap_16 and bswap_32 of <byteswap.h>; a 32-bit value is two 16-bit limbs
bswap_16(x) == (x % 256) * 256 + (x \div 256)
bswap_32(x) == <<bswap_16(x[2]), bswap_16(x[1])>>

\* StorageEndian::swap<T> with sizeof(T) = size, as compiled for a host of
\* either byte order
StorageEndianSwapOn(host, size, t) ==
  IF host = "little" THEN t
  ELSE CASE size = 1 -> t
         [] size = 2 -> bswap_16(t)
         [] size = 4 -> bswap_32(t)

\* what a host reads from a uint16_t / uint32_t field of a device buffer whose
\* bytes, taken least significant first, spell wire
NativeLoad16(host, wire) == IF host = "little" THEN wire ELSE bswap_16(wire)
NativeLoad32(host, wire) == IF host = "little" THEN wire ELSE bswap_32(wire)

---------------------------------------------------------------------------
(* smart.h / smart.cc: the SMART data model *)

\* the low 16 bits of x are kept below 2^n, n <= 16
LowBits(x, n) == x % (2^n)

\* a slip of the switch: ids 9 and 240 share the 16-bit mask of ids 3, 5, 196
SmartAttribute_Mask16(attribute) ==
  LET full == <<attribute.raw_lo[1], attribute.raw_lo[2], attribute.raw_hi, 0>>
      ident == attribute.id
  IN [id       |-> ident,
      pre_fail |-> attribute.flags % 2 = 1,
      offline  |-> (attribute.flags \div 2) % 2 = 1,
      value    |-> attribute.value,
      raw      |-> IF ident \in {3, 5, 196, 9, 240} THEN <<full[1], 0, 0, 0>>
                   ELSE IF ident \in {190, 194} THEN <<full[1] % 256, 0, 0, 0>>
                   ELSE full]

\* SmartAttribute::SmartAttribute(const smart_attribute&): raw is
\* (raw_hi << 32) | raw_lo, then masked by id
SmartAttribute(attribute) ==
  LET full == <<attribute.raw_lo[1], attribute.raw_lo[2], attribute.raw_hi, 0>>
      ident == attribute.id
  IN [id       |-> ident,
      pre_fail |-> attribute.flags % 2 = 1,
      offline  |-> (attribute.flags \div 2) % 2 = 1,
      value    |-> attribute.value,
      raw      |-> IF ident \in {3, 5, 196} THEN <<full[1], 0, 0, 0>>
                   ELSE IF ident \in {9, 240} THEN <<full[1], LowBits(full[2], 8), 0, 0>>
                   ELSE IF ident \in {190, 194} THEN <<LowBits(full[1], 8), 0, 0, 0>>
                   ELSE full]

\* SmartThreshold::SmartThreshold(const smart_threshold&)
SmartThreshold(threshold) == [threshold |-> threshold.threshold]

getID(attribute) == attribute.id

getPreFail(attribute) == attribute.pre_fail

getRaw(attribute) == attribute.raw

getThreshold(threshold) == threshold.threshold

idValid(attribute) == attribute.id # 0

valueValid(attribute) == attribute.value > 0 /\ attribute.value < 254

\* a slip of operator<=: strict comparison
AttributeLeq_Strict(attribute, threshold) == attribute.value < getThreshold(threshold)

\* SmartAttribute::operator<=(const SmartThreshold&)
AttributeLeq(attribute, threshold) == attribute.value <= getThreshold(threshold)

\* the smart_attribute and smart_threshold structures as the device returns them
RawAttribute(id, flags, value, raw_lo, raw_hi) ==
  [id |-> id, flags |-> flags, value |-> value, worst |-> value,
   raw_lo |-> raw_lo, raw_hi |-> raw_hi]

RawThreshold(id, threshold) == [id |-> id, threshold |-> threshold]

Slots == 0 .. (SMART_ATTRIBUTE_NUM - 1)

ZeroData == [s \in Slots |-> RawAttribute(0, 0, 0, <<0, 0>>, 0)]

ZeroThresholds == [s \in Slots |-> RawThreshold(0, 0)]

---------------------------------------------------------------------------
(* scsi.h and the ata_* functions: the command blocks *)

ZeroCdb ==
  [operation_code |-> 0, extend |-> 0, protocol |-> 0, multiple_count |-> 0,
   t_length |-> 0, byte_block |-> 0, t_dir |-> 0, t_type |-> 0, ck_cond |-> 0,
   off_line |-> 0, features_15_8 |-> 0, features_7_0 |-> 0, count_15_8 |-> 0,
   count_7_0 |-> 0, lba_31_24 |-> 0, lba_7_0 |-> 0, lba_39_32 |-> 0,
   lba_15_8 |-> 0, lba_47_40 |-> 0, lba_23_16 |-> 0, device |-> 0,
   command |-> 0, control |-> 0]

\* the byte orders the program is built for (endian.h tests __BYTE_ORDER__)
Hosts == {"little", "big"}

RECURSIVE PackBits(_, _, _)
\* one byte of bit-fields, each [v |-> value, w |-> width], in declaration
\* order: a little-endian ABI allocates them from bit 0 upwards, a big-endian
\* ABI from bit 7 downwards; used is the number of bits already allocated
PackBits(fields, host, used) ==
  IF fields = <<>> THEN 0
  ELSE LET f == Head(fields)
           shift == IF host = "little" THEN used ELSE 8 - used - f.w
       IN f.v * (2 ^ shift) + PackBits(Tail(fields), host, used + f.w)

\* the 16 bytes of a struct sbc_ata_pass_through as sgio hands them to the
\* kernel, for a build of the given byte order
CdbBytes(cdb, host) ==
  << cdb.operation_code,
     PackBits(<<[v |-> cdb.extend, w |-> 1], [v |-> cdb.protocol, w |-> 4],
                [v |-> cdb.multiple_count, w |-> 3]>>, host, 0),
     PackBits(<<[v |-> cdb.t_length, w |-> 2], [v |-> cdb.byte_block, w |-> 1],
                [v |-> cdb.t_dir, w |-> 1], [v |-> cdb.t_type, w |-> 1],
                [v |-> cdb.ck_cond, w |-> 1], [v |-> cdb.off_line, w |-> 2]>>,
              host, 0),
     cdb.features_15_8, cdb.features_7_0, cdb.count_15_8, cdb.count_7_0,
     cdb.lba_31_24, cdb.lba_7_0, cdb.lba_39_32, cdb.lba_15_8, cdb.lba_47_40,
     cdb.lba_23_16, cdb.device, cdb.command, cdb.control >>

\* the six assignments every ata_* function starts with
PassThroughPio ==
  [ZeroCdb EXCEPT !.operation_code = SBC_ATA_PASS_THROUGH,
                  !.protocol = ATA_PROTOCOL_PIO_DATA_IN,
                  !.t_dir = ATA_TRANSFER_DIRECTION_FROM_DEVICE,
                  !.byte_block = ATA_TRANSFER_SIZE_BLOCK,
                  !.t_type = ATA_TRANSFER_TYPE_SECTOR,
                  !.t_length = ATA_TRANSFER_LENGTH_COUNT]

ata_identify ==
  [cdb |-> [PassThroughPio EXCEPT !.count_7_0 = 1,
                                  !.command = ATA_IDENTIFY_DEVICE],
   dxfer_len |-> SECTOR_SIZE]

ata_smart_read_data ==
  [cdb |-> [PassThroughPio EXCEPT !.count_7_0 = 1,
                                  !.command = ATA_SMART,
                                  !.features_7_0 = SMART_READ_DATA,
                                  !.lba_23_16 = 194,
                                  !.lba_15_8 = 79],
   dxfer_len |-> SECTOR_SIZE]

\* a slip of the feature byte: the thresholds read sends READ DATA again
ata_smart_read_thresholds_AsData == ata_smart_read_data

ata_smart_read_thresholds ==
  [cdb |-> [PassThroughPio EXCEPT !.count_7_0 = 1,
                                  !.command = ATA_SMART,
                                  !.features_7_0 = SMART_READ_THRESHOLDS,
                                  !.lba_23_16 = 194,
                                  !.lba_15_8 = 79],
   dxfer_len |-> SECTOR_SIZE]

\* a slip of the count: the high byte of the sector count is not sent
ata_smart_read_log_Count8(log, sectors) ==
  [cdb |-> [PassThroughPio EXCEPT !.count_7_0 = sectors % 256,
                                  !.command = ATA_SMART,
                                  !.features_7_0 = SMART_READ_LOG,
                                  !.lba_23_16 = 194,
                                  !.lba_15_8 = 79,
                                  !.lba_7_0 = log % 256],
   dxfer_len |-> sectors * SECTOR_SIZE]

\* sectors is a uint16_t; the count bytes are uint8_t
ata_smart_read_log(log, sectors) ==
  [cdb |-> [PassThroughPio EXCEPT !.count_15_8 = (sectors \div 256) % 256,
                                  !.count_7_0 = sectors % 256,
                                  !.command = ATA_SMART,
                                  !.features_7_0 = SMART_READ_LOG,
                                  !.lba_23_16 = 194,
                                  !.lba_15_8 = 79,
                                  !.lba_7_0 = log % 256],
   dxfer_len |-> sectors * SECTOR_SIZE]

ata_smart_read_log_directory == ata_smart_read_log(ATA_LOG_ADDRESS_DIRECTORY, 1)

\* a slip of sgio: the SCSI status is not looked at
sgio_StatusIgnored(ioctl_ret, status) ==
  [exits |-> ioctl_ret < 0, result |-> TRUE]

\* a slip of sgio: the ioctl failure is returned instead of ending the process
sgio_NoExit(ioctl_ret, status) ==
  [exits |-> FALSE, result |-> ioctl_ret >= 0 /\ status = 0]

\* sgio(): the SG_IO ioctl returned ioctl_ret and left status in the header.
\* A negative return ends the process; otherwise the result is !status.
sgio(ioctl_ret, status) ==
  [exits |-> ioctl_ret < 0, result |-> status = 0]

\* what one transport call looked like: the command block and buffer length
\* handed to the kernel, and what the kernel left in the header (resid is
\* the number of bytes of dxfer_len the device did not transfer)
Call(cmd, outcome) ==
  [cdb |-> cmd.cdb, dxfer_len |-> cmd.dxfer_len,
   ioctl_ret |-> outcome.ioctl_ret, status |-> outcome.status,
   resid |-> outcome.resid]

---------------------------------------------------------------------------
(* The inputs a run is given: the command line and what the device answers *)

DevicePath == <<"/", "d", "e", "v", "/", "s", "g", "0">>

WarningStrings ==
  { <<"5", ":", "1">>,                      \* 5:1
    <<"5">> }                               \* no ':' separator

CriticalStrings ==
  { <<"5", ":", "2">>,                      \* 5:2
    <<"1", "8", "7", ":", "1">>,            \* 187:1
    <<"5", ":", "2", "x">> }                \* trailing characters

Option(opt, arg) == [opt |-> opt, arg |-> arg]

Options ==
  { Option("h", <<>>), Option("V", <<>>), Option("?", <<>>),
    Option("d", DevicePath) }
  \cup { Option("w", s) : s \in WarningStrings }
  \cup { Option("c", s) : s \in CriticalStrings }

ArgVectors == UNION { [1 .. n -> Options] : n \in 0 .. MaxArgs }

\* what the kernel can answer to one SG_IO ioctl: failure, or completion
\* with a SCSI status (0 GOOD, 2 CHECK CONDITION) and a residual count (0
\* when the whole buffer was filled, one sector when the response fell one
\* sector short of dxfer_len)
Outcomes ==
  { [ioctl_ret |-> -1, status |-> 0, resid |-> 0],
    [ioctl_ret |-> 0,  status |-> 0, resid |-> 0],
    [ioctl_ret |-> 0,  status |-> 2, resid |-> 0],
    [ioctl_ret |-> 0,  status |-> 0, resid |-> SECTOR_SIZE] }

IdentifyWords == {0, 1, 65534}

SgVersions == {29999, 30000, 30536}

\* attribute slots a device may return
PreFailAtThreshold == RawAttribute(5, 1, 10, <<2, 1>>, 0)
AdvisoryAtThreshold == RawAttribute(187, 2, 10, <<1, 0>>, 0)
Healthy == RawAttribute(5, 3, 100, <<7, 0>>, 0)
Unused == RawAttribute(0, 0, 1, <<9, 0>>, 0)

DataPage(first, last) ==
  [s \in Slots |-> IF s = 0 THEN first
                   ELSE IF s = SMART_ATTRIBUTE_NUM - 1 THEN last
                   ELSE RawAttribute(0, 0, 0, <<0, 0>>, 0)]

DataPages ==
  { DataPage(Healthy, Unused),
    DataPage(PreFailAtThreshold, Healthy),
    DataPage(Unused, AdvisoryAtThreshold),
    DataPage(Healthy, AdvisoryAtThreshold) }

ThresholdPage(t) == [s \in Slots |-> RawThreshold(0, t)]

ThresholdPages == { ThresholdPage(0), ThresholdPage(10) }

LogSummary(index, count) == [index |-> index, count |-> count]

LogSummaries == { LogSummary(0, 5), LogSummary(1, 3) }

\* sectors of a long summary log: every count at its maximum, written or not
FullSummaries == { LogSummary(1, 65535), LogSummary(0, 65535) }

\* the contents a summary log of n sectors is drawn from: every combination
\* of LogSummaries for a short log, one sector of FullSummaries repeated for
\* a long one
SummaryPages(n) ==
  IF n <= MaxLogSectors THEN [1 .. n -> LogSummaries]
  ELSE { [k \in 1 .. n |-> s] : s \in FullSummaries }

---------------------------------------------------------------------------
(* main() *)

argVars == <<argv, optind, device, warning, critical>>
mapVars == <<warning_thresholds, critical_thresholds>>
devVars == <<fd, sg_version>>
bufVars == <<identify, sd, st, smart_log_sectors, summaries>>
cntVars == <<prdfail, advisory, crit, warn>>
evalVars == <<i, prdfail, advisory, crit, warn, code, logs, perfdata>>
outVars == <<stdout, stderr>>

Init ==
  /\ pc = "getopt"
  /\ argv \in ArgVectors
  /\ optind = 1
  /\ device = [null |-> TRUE, str |-> <<>>]
  /\ warning = <<>>
  /\ critical = <<>>
  /\ warning_thresholds = EmptyMap
  /\ critical_thresholds = EmptyMap
  /\ fd = "unopened"
  /\ sg_version = [ret |-> 0, version |-> 0]
  /\ calls = <<>>
  /\ identify = [w82 |-> 0, w85 |-> 0]
  /\ sd = ZeroData
  /\ st = ZeroThresholds
  /\ i = 0
  /\ prdfail = 0 /\ advisory = 0 /\ crit = 0 /\ warn = 0
  /\ code = NAGIOS_OK
  /\ logs = 0
  /\ perfdata = <<>>
  /\ smart_log_sectors = 0
  /\ summaries = <<>>
  /\ stdout = <<>>
  /\ stderr = <<>>
  /\ exit_code = "running"

\* exit(status)
Exit(status) ==
  /\ pc' = "exited"
  /\ exit_code' = status

\* one turn of the while loop over getopt_long (lines 1271-1293)
GetOpt ==
  /\ pc = "getopt"
  /\ IF optind > Len(argv)
     THEN /\ pc' = "check_device"
          /\ UNCHANGED <<optind, device, warning, critical, stdout, exit_code>>
     ELSE LET o == argv[optind]
          IN /\ optind' = optind + 1
             /\ CASE o.opt = "h" ->
                       /\ stdout' = Append(stdout, <<"help">>)
                       /\ Exit(EXIT_INFO)
                       /\ UNCHANGED <<device, warning, critical>>
                  [] o.opt = "V" ->
                       /\ stdout' = Append(stdout, <<"version">>)
                       /\ Exit(EXIT_INFO)
                       /\ UNCHANGED <<device, warning, critical>>
                  [] o.opt = "d" ->
                       /\ device' = [null |-> FALSE, str |-> o.arg]
                       /\ UNCHANGED <<pc, warning, critical, stdout, exit_code>>
                  [] o.opt = "w" ->
                       /\ warning' = o.arg
                       /\ UNCHANGED <<pc, device, critical, stdout, exit_code>>
                  [] o.opt = "c" ->
                       /\ critical' = o.arg
                       /\ UNCHANGED <<pc, device, warning, stdout, exit_code>>
                  [] OTHER ->
                       /\ stdout' = Append(stdout, <<"usage">>)
                       /\ Exit(EXIT_USAGE)
                       /\ UNCHANGED <<device, warning, critical>>
  /\ UNCHANGED <<argv, mapVars, devVars, calls, bufVars, evalVars, stderr>>

\* if(!device) (lines 1296-1299)
CheckDevice ==
  /\ pc = "check_device"
  /\ IF device.null
     THEN /\ stdout' = Append(stdout, <<"help">>)
          /\ Exit(NAGIOS_UNKNOWN)
     ELSE /\ pc' = "parse_warning"
          /\ UNCHANGED <<stdout, exit_code>>
  /\ UNCHANGED <<argVars, mapVars, devVars, calls, bufVars, evalVars, stderr>>

\* lines 1302-1306
ParseWarning ==
  /\ pc = "parse_warning"
  /\ LET r == parse_thresholds(EmptyMap, warning)
     IN /\ warning_thresholds' = r.thresholds
        /\ IF ~r.ok
           THEN /\ stdout' = Append(stdout, <<"help">>)
                /\ Exit(NAGIOS_UNKNOWN)
           ELSE /\ pc' = "parse_critical"
                /\ UNCHANGED <<stdout, exit_code>>
  /\ UNCHANGED <<argVars, critical_thresholds, devVars, calls, bufVars,
                 evalVars, stderr>>

\* lines 1308-1312
ParseCritical ==
  /\ pc = "parse_critical"
  /\ LET r == parse_thresholds(EmptyMap, critical)
     IN /\ critical_thresholds' = r.thresholds
        /\ IF ~r.ok
           THEN /\ stdout' = Append(stdout, <<"help">>)
                /\ Exit(NAGIOS_UNKNOWN)
           ELSE /\ pc' = "open"
                /\ UNCHANGED <<stdout, exit_code>>
  /\ UNCHANGED <<argVars, warning_thresholds, devVars, calls, bufVars,
                 evalVars, stderr>>

\* int fd = open(device, O_RDWR) (lines 1315-1319)
OpenDevice ==
  /\ pc = "open"
  /\ \E opened \in BOOLEAN :
       IF opened
       THEN /\ fd' = "open"
            /\ pc' = "sg_version"
            /\ UNCHANGED <<stderr, exit_code>>
       ELSE /\ fd' = "failed"
            /\ stderr' = Append(stderr, <<"UNKNOWN: unable to open device">>)
            /\ Exit(NAGIOS_UNKNOWN)
  /\ UNCHANGED <<argVars, mapVars, sg_version, calls, bufVars, evalVars, stdout>>

\* a slip of the test: the version number is not compared
SgVersionBad_RetOnly(ret, version) == ret = -1

\* the test of line 1322
SgVersionBad(ret, version) == ret = -1 \/ version < SG_MIN_VERSION

\* ioctl(fd, SG_GET_VERSION_NUM, &sg_version) (lines 1321-1325)
CheckSgVersion ==
  /\ pc = "sg_version"
  /\ \E r \in {[ret |-> -1, version |-> 0]}
              \cup {[ret |-> 0, version |-> v] : v \in SgVersions} :
       /\ sg_version' = r
       /\ IF SgVersionBad(r.ret, r.version)
          THEN /\ stderr' = Append(stderr, <<"UNKNOWN: not an sg device, or the driver is old">>)
               /\ Exit(NAGIOS_UNKNOWN)
          ELSE /\ pc' = "identify"
               /\ UNCHANGED <<stderr, exit_code>>
  /\ UNCHANGED <<argVars, mapVars, fd, calls, bufVars, evalVars, stdout>>

\* the exit inside sgio (lines 940-943)
SgioExit ==
  /\ stderr' = Append(stderr, <<"UNKNOWN: SG_IO ioctl error">>)
  /\ Exit(NAGIOS_UNKNOWN)

\* if(!ata_identify(fd, identify)) (lines 1328-1332)
AtaIdentify ==
  /\ pc = "identify"
  /\ \E o \in Outcomes, w82 \in IdentifyWords, w85 \in IdentifyWords :
       LET r == sgio(o.ioctl_ret, o.status)
       IN /\ calls' = Append(calls, Call(ata_identify, o))
          /\ IF r.exits
             THEN /\ SgioExit
                  /\ UNCHANGED <<identify, stdout>>
             ELSE IF ~r.result
             THEN /\ stdout' = Append(stdout, <<"OK: ATA command set unsupported">>)
                  /\ Exit(NAGIOS_OK)
                  /\ UNCHANGED <<identify, stderr>>
             ELSE /\ identify' = [w82 |-> w82, w85 |-> w85]
                  /\ pc' = "check_supported"
                  /\ UNCHANGED <<stdout, stderr, exit_code>>
  /\ UNCHANGED <<argVars, mapVars, devVars, sd, st, smart_log_sectors,
                 summaries, evalVars>>

\* a slip of the test: bit 1 of word 82 instead of bit 0
SmartUnsupported_Bit1(words) == (StorageEndianSwap(words.w82) \div 2) % 2 = 0

\* ~StorageEndian::swap(identify[82]) & 0x01
SmartUnsupported(words) == StorageEndianSwap(words.w82) % 2 = 0

\* a slip of the test: a disabled feature set is not noticed
SmartDisabled_Never(words) == FALSE

\* a slip of the test: word 82 is tested a second time
SmartDisabled_Word82(words) == StorageEndianSwap(words.w82) % 2 = 0

\* ~StorageEndian::swap(identify[85]) & 0x01
SmartDisabled(words) == StorageEndianSwap(words.w85) % 2 = 0

\* lines 1334-1337
CheckSmartSupported ==
  /\ pc = "check_supported"
  /\ IF SmartUnsupported(identify)
     THEN /\ stdout' = Append(stdout, <<"OK: SMART feature set unsupported">>)
          /\ Exit(NAGIOS_OK)
     ELSE /\ pc' = "check_enabled"
          /\ UNCHANGED <<stdout, exit_code>>
  /\ UNCHANGED <<argVars, mapVars, devVars, calls, bufVars, evalVars, stderr>>

\* lines 1339-1350: the test, then the locals of the evaluation
CheckSmartEnabled ==
  /\ pc = "check_enabled"
  /\ IF SmartDisabled(identify)
     THEN /\ stdout' = Append(stdout, <<"UNKNOWN: SMART feature set disabled">>)
          /\ Exit(NAGIOS_UNKNOWN)
          /\ UNCHANGED evalVars
     ELSE /\ pc' = "read_data"
          /\ code' = NAGIOS_OK
          /\ prdfail' = 0 /\ advisory' = 0 /\ crit' = 0 /\ warn' = 0
          /\ logs' = 0
          /\ perfdata' = <<>>
          /\ UNCHANGED <<i, stdout, exit_code>>
  /\ UNCHANGED <<argVars, mapVars, devVars, calls, bufVars, stderr>>

---------------------------------------------------------------------------
(* check_smart_attributes() *)

\* ata_smart_read_data(fd, &sd) (lines 1096-1097); the result is not looked
\* at, so after a non-zero status sd holds whatever the buffer held
ReadSmartData ==
  /\ pc = "read_data"
  /\ \E o \in Outcomes, page \in DataPages :
       LET r == sgio(o.ioctl_ret, o.status)
       IN /\ calls' = Append(calls, Call(ata_smart_read_data, o))
          /\ IF r.exits
             THEN /\ SgioExit
                  /\ UNCHANGED sd
             ELSE /\ sd' = page
                  /\ pc' = "read_thresholds"
                  /\ UNCHANGED <<stderr, exit_code>>
  /\ UNCHANGED <<argVars, mapVars, devVars, identify, st, smart_log_sectors,
                 summaries, evalVars, stdout>>

\* ata_smart_read_thresholds(fd, &st) (lines 1099-1100), then int i=0
ReadSmartThresholds ==
  /\ pc = "read_thresholds"
  /\ \E o \in Outcomes, page \in ThresholdPages :
       LET r == sgio(o.ioctl_ret, o.status)
       IN /\ calls' = Append(calls, Call(ata_smart_read_thresholds, o))
          /\ IF r.exits
             THEN /\ SgioExit
                  /\ UNCHANGED <<st, i>>
             ELSE /\ st' = page
                  /\ i' = 0
                  /\ pc' = "attributes"
                  /\ UNCHANGED <<stderr, exit_code>>
  /\ UNCHANGED <<argVars, mapVars, devVars, identify, sd, smart_log_sectors,
                 summaries, cntVars, code, logs, perfdata, stdout>>

\* thresholds[key] of a std::map: the value, 0 for a key not yet in the map
MapAt(thresholds, key) ==
  IF key \in DOMAIN thresholds THEN thresholds[key] ELSE U64Zero

\* the map after thresholds[key]: a missing key has been inserted with 0
MapTouch(thresholds, key) ==
  [x \in DOMAIN thresholds \cup {key} |-> MapAt(thresholds, x)]

\* attribute.valueValid() && (attribute <= threshold) (line 1112)
VendorFailed(attribute, threshold) ==
  valueValid(attribute) /\ AttributeLeq(attribute, threshold)

\* crit_threshold && (attribute.getRaw() >= crit_threshold) (line 1126)
CriticalHit(attribute, crit_threshold) ==
  ~U64IsZero(crit_threshold) /\ U64Geq(getRaw(attribute), crit_threshold)

\* the else-if of line 1128
WarningHit(attribute, crit_threshold, warn_threshold) ==
  /\ ~CriticalHit(attribute, crit_threshold)
  /\ ~U64IsZero(warn_threshold)
  /\ U64Geq(getRaw(attribute), warn_threshold)

\* the perfdata text of one attribute (lines 1133-1139): id, raw value, the
\* warning and the critical threshold, each empty when it is 0
PerfEntry(attribute, warn_threshold, crit_threshold) ==
  [id   |-> getID(attribute),
   raw  |-> getRaw(attribute),
   warn |-> IF U64IsZero(warn_threshold) THEN <<>> ELSE warn_threshold,
   crit |-> IF U64IsZero(crit_threshold) THEN <<>> ELSE crit_threshold]

\* a slip of the subscript: the threshold of the following slot is taken
SlotThreshold_Next(page, index) == page[(index + 1) % SMART_ATTRIBUTE_NUM]

\* st.thresholds[i] (line 1106)
SlotThreshold(page, index) == page[index]

\* one turn of the for loop (lines 1103-1141)
CheckAttribute ==
  /\ pc = "attributes"
  /\ i < SMART_ATTRIBUTE_NUM
  /\ LET attribute == SmartAttribute(sd[i])
         threshold == SmartThreshold(SlotThreshold(st, i))
         crit_threshold == MapAt(critical_thresholds, getID(attribute))
         warn_threshold == MapAt(warning_thresholds, getID(attribute))
     IN IF ~idValid(attribute)
        THEN UNCHANGED <<mapVars, cntVars, perfdata>>
        ELSE /\ IF VendorFailed(attribute, threshold)
                THEN IF getPreFail(attribute)
                     THEN prdfail' = prdfail + 1 /\ advisory' = advisory
                     ELSE advisory' = advisory + 1 /\ prdfail' = prdfail
                ELSE UNCHANGED <<prdfail, advisory>>
             /\ critical_thresholds' = MapTouch(critical_thresholds, getID(attribute))
             /\ warning_thresholds' = MapTouch(warning_thresholds, getID(attribute))
             /\ IF CriticalHit(attribute, crit_threshold)
                THEN crit' = crit + 1 /\ warn' = warn
                ELSE IF WarningHit(attribute, crit_threshold, warn_threshold)
                THEN warn' = warn + 1 /\ crit' = crit
                ELSE UNCHANGED <<crit, warn>>
             /\ perfdata' = Append(perfdata,
                                   PerfEntry(attribute, warn_threshold, crit_threshold))
  /\ i' = i + 1
  /\ UNCHANGED <<pc, argVars, devVars, calls, bufVars, code, logs, outVars,
                 exit_code>>

\* a slip of the first test: the warn counter is left out
StateToReport_NoWarn(state, nprdfail, nadvisory, ncrit, nwarn) ==
  LET first == IF nadvisory # 0 THEN Max(state, NAGIOS_WARNING) ELSE state
  IN IF nprdfail # 0 \/ ncrit # 0 THEN Max(first, NAGIOS_CRITICAL) ELSE first

\* a slip of the second test: the crit counter is left out
StateToReport_NoCrit(state, nprdfail, nadvisory, ncrit, nwarn) ==
  LET first == IF nadvisory # 0 \/ nwarn # 0
               THEN Max(state, NAGIOS_WARNING) ELSE state
  IN IF nprdfail # 0 THEN Max(first, NAGIOS_CRITICAL) ELSE first

\* lines 1143-1148
StateToReport(state, nprdfail, nadvisory, ncrit, nwarn) ==
  LET first == IF nadvisory # 0 \/ nwarn # 0
               THEN Max(state, NAGIOS_WARNING) ELSE state
  IN IF nprdfail # 0 \/ ncrit # 0 THEN Max(first, NAGIOS_CRITICAL) ELSE first

\* the end of check_smart_attributes
DetermineState ==
  /\ pc = "attributes"
  /\ i = SMART_ATTRIBUTE_NUM
  /\ code' = StateToReport(code, prdfail, advisory, crit, warn)
  /\ pc' = "read_log_directory"
  /\ UNCHANGED <<argVars, mapVars, devVars, calls, bufVars, i, cntVars, logs,
                 perfdata, outVars, exit_code>>

---------------------------------------------------------------------------
(* check_smart_log() *)

\* a slip of the test: the summary log is read whatever the directory says
NoLogSectors_Never(sectors) == FALSE

\* if(!smart_log_sectors) (line 1169)
NoLogSectors(sectors) == sectors = 0

\* lines 1164-1170
ReadLogDirectory ==
  /\ pc = "read_log_directory"
  /\ \E o \in Outcomes, entry \in 0 .. MaxLogSectors :
       LET r == sgio(o.ioctl_ret, o.status)
       IN /\ calls' = Append(calls, Call(ata_smart_read_log_directory, o))
          /\ IF r.exits
             THEN /\ SgioExit
                  /\ UNCHANGED smart_log_sectors
             ELSE /\ smart_log_sectors' = StorageEndianSwap(entry)
                  /\ pc' = IF NoLogSectors(StorageEndianSwap(entry))
                           THEN "print" ELSE "read_log"
                  /\ UNCHANGED <<stderr, exit_code>>
  /\ UNCHANGED <<argVars, mapVars, devVars, identify, sd, st, summaries,
                 evalVars, stdout>>

\* lines 1172-1175
ReadLogSummaries ==
  /\ pc = "read_log"
  /\ \E o \in Outcomes, data \in SummaryPages(smart_log_sectors) :
       LET r == sgio(o.ioctl_ret, o.status)
       IN /\ calls' = Append(calls,
                 Call(ata_smart_read_log(ATA_LOG_ADDRESS_SMART, smart_log_sectors), o))
          /\ IF r.exits
             THEN /\ SgioExit
                  /\ UNCHANGED summaries
             ELSE /\ summaries' = data
                  /\ pc' = "count_logs"
                  /\ UNCHANGED <<stderr, exit_code>>
  /\ UNCHANGED <<argVars, mapVars, devVars, identify, sd, st,
                 smart_log_sectors, evalVars, stdout>>

RECURSIVE LogRange(_, _, _)
\* what the turns lo .. hi of the for loop of lines 1178-1186 add to logs,
\* as the bits of the int; the turns are taken in two halves, which in
\* 32-bit addition gives what taking them one after the other gives
LogRange(sectors, lo, hi) ==
  IF lo > hi THEN Int32Bits(0)
  ELSE IF lo = hi
  THEN (IF StorageEndianSwap(sectors[lo].index) = 0
        THEN Int32Bits(0) ELSE Int32Bits(StorageEndianSwap(sectors[lo].count)))
  ELSE LET mid == (lo + hi) \div 2
       IN U32Add(LogRange(sectors, lo, mid), LogRange(sectors, mid + 1, hi))

\* the for loop of lines 1178-1186 from sector k on
LogCount(sectors, k) == LogRange(sectors, k, Len(sectors))

\* a slip of the constant: logged errors raise the state to CRITICAL
LogState_Critical(state, nlogs) ==
  IF nlogs # 0 THEN Max(state, NAGIOS_CRITICAL) ELSE state

\* a slip of the assignment: WARNING is stored without max()
LogState_Assign(state, nlogs) ==
  IF nlogs # 0 THEN NAGIOS_WARNING ELSE state

\* lines 1188-1189
LogState(state, nlogs) ==
  IF nlogs # 0 THEN Max(state, NAGIOS_WARNING) ELSE state

\* lines 1178-1191.  logs is an int: an addition that leaves its range is
\* undefined, and the build (CXXFLAGS=-O2 -Wall, no -ftrapv) leaves the low
\* 32 bits of the sum in it
CountLogs ==
  /\ pc = "count_logs"
  /\ logs' = Int32Value(U32Add(Int32Bits(logs), LogCount(summaries, 1)))
  /\ code' = LogState(code, logs')
  /\ pc' = "print"
  /\ UNCHANGED <<argVars, mapVars, devVars, calls, bufVars, i, cntVars,
                 perfdata, outVars, exit_code>>

---------------------------------------------------------------------------
(* the end of main() *)

\* const char* status[] = { "OK", "WARNING", "CRITICAL" }
StatusWord(state) == <<"OK", "WARNING", "CRITICAL">>[state + 1]

\* lines 1357-1365
PrintResults ==
  /\ pc = "print"
  /\ stdout' = Append(stdout, <<StatusWord(code), prdfail, advisory, crit,
                                warn, logs, perfdata>>)
  /\ pc' = "close"
  /\ UNCHANGED <<argVars, mapVars, devVars, calls, bufVars, evalVars, stderr,
                 exit_code>>

\* close(fd); return code; (lines 1367-1369)
CloseDevice ==
  /\ pc = "close"
  /\ fd' = "closed"
  /\ Exit(code)
  /\ UNCHANGED <<argVars, mapVars, sg_version, calls, bufVars, evalVars,
                 outVars>>

Next ==
  \/ GetOpt
  \/ CheckDevice
  \/ ParseWarning
  \/ ParseCritical
  \/ OpenDevice
  \/ CheckSgVersion
  \/ AtaIdentify
  \/ CheckSmartSupported
  \/ CheckSmartEnabled
  \/ ReadSmartData
  \/ ReadSmartThresholds
  \/ CheckAttribute
  \/ DetermineState
  \/ ReadLogDirectory
  \/ ReadLogSummaries
  \/ CountLogs
  \/ PrintResults
  \/ CloseDevice

Spec == Init /\ [][Next]_vars

---------------------------------------------------------------------------
(* check_smart_attributes() on its own: the run has parsed its options,    *)
(* read both pages and reached slot 28 of the loop with every earlier slot *)
(* unused; the last two slots, their thresholds and the operator's         *)
(* overrides range over a wider domain than in Spec.                       *)

AttrWarningStrings ==
  { <<>>,                                   \* no -w
    <<"5", ":", "0">>,                      \* 5:0
    <<"5", ":", "1">>,                      \* 5:1
    <<"2", "6", "1", ":", "1">> }           \* 261:1

AttrCriticalStrings ==
  { <<>>,                                   \* no -c
    <<"5", ":", "0">>,                      \* 5:0
    <<"5", ":", "2">>,                      \* 5:2
    <<"1", "8", "7", ":", "1">> }           \* 187:1

AttrIds == {0, 5, 187}
AttrFlags == {1, 2}
AttrValues == {0, 1, 10, 253, 254, 255}
AttrRawLo == {<<0, 0>>, <<1, 0>>, <<2, 0>>}
AttrRawHi == {0, 1}
AttrThresholds == {0, 10, 255}

AttrSlots ==
  { RawAttribute(id, flags, value, raw_lo, raw_hi) :
      id \in AttrIds, flags \in AttrFlags, value \in AttrValues,
      raw_lo \in AttrRawLo, raw_hi \in AttrRawHi }

PriorSlots == { Unused, Healthy, PreFailAtThreshold, AdvisoryAtThreshold }

Good == [ioctl_ret |-> 0, status |-> 0, resid |-> 0]

InitAttributes ==
  /\ pc = "attributes"
  /\ warning \in AttrWarningStrings
  /\ critical \in AttrCriticalStrings
  /\ argv = <<Option("d", DevicePath), Option("w", warning), Option("c", critical)>>
  /\ optind = Len(argv) + 1
  /\ device = [null |-> FALSE, str |-> DevicePath]
  /\ parse_thresholds(EmptyMap, warning).ok
  /\ parse_thresholds(EmptyMap, critical).ok
  /\ warning_thresholds = parse_thresholds(EmptyMap, warning).thresholds
  /\ critical_thresholds = parse_thresholds(EmptyMap, critical).thresholds
  /\ fd = "open"
  /\ sg_version = [ret |-> 0, version |-> SG_MIN_VERSION]
  /\ calls = <<Call(ata_identify, Good), Call(ata_smart_read_data, Good),
               Call(ata_smart_read_thresholds, Good)>>
  /\ identify = [w82 |-> 1, w85 |-> 1]
  /\ \E prior \in PriorSlots, last \in AttrSlots, t \in AttrThresholds :
       /\ sd = [s \in Slots |-> IF s = SMART_ATTRIBUTE_NUM - 2 THEN prior
                                ELSE IF s = SMART_ATTRIBUTE_NUM - 1 THEN last
                                ELSE RawAttribute(0, 0, 0, <<0, 0>>, 0)]
       /\ st = [s \in Slots |-> IF s = SMART_ATTRIBUTE_NUM - 1
                                THEN RawThreshold(last.id, t)
                                ELSE RawThreshold(0, 10)]
  /\ i = SMART_ATTRIBUTE_NUM - 2
  /\ prdfail = 0 /\ advisory = 0 /\ crit = 0 /\ warn = 0
  /\ code = NAGIOS_OK
  /\ logs = 0
  /\ perfdata = <<>>
  /\ smart_log_sectors = 0
  /\ summaries = <<>>
  /\ stdout = <<>>
  /\ stderr = <<>>
  /\ exit_code = "running"

NextAttributes == CheckAttribute \/ DetermineState

SpecAttributes == InitAttributes /\ [][NextAttributes]_vars

---------------------------------------------------------------------------
(* Properties *)

\* the slot the loop is about to evaluate
AtSlot == pc = "attributes" /\ i < SMART_ATTRIBUTE_NUM

\* the operator's overrides as given on the command line
GivenCritical == parse_thresholds(EmptyMap, critical).thresholds
GivenWarning == parse_thresholds(EmptyMap, warning).thresholds

\* (raw_hi << 32) | raw_lo of slot s after the mask of its id
MaskedRaw(s) == getRaw(SmartAttribute(sd[s]))

Bump(cond) == IF cond THEN 1 ELSE 0

\* C1: evaluating a slot whose id is non-zero adds 1 to prdfail exactly when
\* 0 < value < 0xFE, value <= the slot's threshold and flags bit 0 is set,
\* adds 1 to advisory exactly when the same holds with flags bit 0 clear,
\* and changes neither otherwise, whatever the overrides are.
C1_VendorThreshold ==
  [][ (AtSlot /\ sd[i].id # 0) =>
        LET fires == /\ 0 < sd[i].value
                     /\ sd[i].value < 254
                     /\ sd[i].value <= st[i].threshold
            bit0  == sd[i].flags % 2 = 1
        IN /\ prdfail' = prdfail + Bump(fires /\ bit0)
           /\ advisory' = advisory + Bump(fires /\ ~bit0) ]_vars

\* C1 witness: the last slot had value = threshold = 10 with the pre-fail
\* bit set, under a critical override, and was counted as a predicted failure.
C1_Witness ==
  /\ pc = "attributes" /\ i = SMART_ATTRIBUTE_NUM
  /\ sd[SMART_ATTRIBUTE_NUM - 1].id = 187
  /\ sd[SMART_ATTRIBUTE_NUM - 1].value = 10
  /\ st[SMART_ATTRIBUTE_NUM - 1].threshold = 10
  /\ sd[SMART_ATTRIBUTE_NUM - 1].flags = 1
  /\ sd[SMART_ATTRIBUTE_NUM - 2].id = 0
  /\ critical # <<>>
  /\ prdfail = 1 /\ advisory = 0

\* C2: when check_smart_attributes returns, code is CRITICAL if prdfail or
\* crit is non-zero, else WARNING if advisory or warn is non-zero, else OK.
C2_AggregateSeverity ==
  pc = "read_log_directory" =>
    code = IF prdfail > 0 \/ crit > 0 THEN NAGIOS_CRITICAL
           ELSE IF advisory > 0 \/ warn > 0 THEN NAGIOS_WARNING
           ELSE NAGIOS_OK

\* C2 witness: only the warning counter is non-zero and the code is WARNING.
C2_Witness ==
  /\ pc = "read_log_directory"
  /\ prdfail = 0 /\ crit = 0 /\ advisory = 0 /\ warn > 0
  /\ code = NAGIOS_WARNING

\* C3 (as claimed): for a slot with non-zero id, crit grows by 1 exactly when
\* the id was given a critical override L (any L >= 0) and the masked raw
\* value is >= L; it does not grow for an id that was given none.
C3_CriticalOverride ==
  [][ (AtSlot /\ sd[i].id # 0) =>
        crit' = crit + Bump(/\ sd[i].id \in DOMAIN GivenCritical
                            /\ U64Geq(MaskedRaw(i), GivenCritical[sd[i].id])) ]_vars

\* C4 (as claimed): for a slot with non-zero id at most one of crit and warn
\* grows; when the masked raw value reaches both overrides of the id only
\* crit grows; when the critical override is absent or not reached and the
\* warning override is reached, warn grows by 1.
C4_CriticalBeforeWarning ==
  [][ (AtSlot /\ sd[i].id # 0) =>
        LET reachedCrit == /\ sd[i].id \in DOMAIN GivenCritical
                           /\ U64Geq(MaskedRaw(i), GivenCritical[sd[i].id])
            reachedWarn == /\ sd[i].id \in DOMAIN GivenWarning
                           /\ U64Geq(MaskedRaw(i), GivenWarning[sd[i].id])
        IN /\ (crit' - crit) + (warn' - warn) <= 1
           /\ (reachedCrit /\ reachedWarn) => (crit' = crit + 1 /\ warn' = warn)
           /\ (~reachedCrit /\ reachedWarn) => warn' = warn + 1 ]_vars

Severities == {NAGIOS_OK, NAGIOS_WARNING, NAGIOS_CRITICAL}

\* C5: in every step of a run the severity code stays in {OK, WARNING,
\* CRITICAL} and never decreases; it starts at OK.
C5_SeverityOnlyRaised ==
  [][ (code \in Severities) /\ (code' \in Severities) /\ (code' >= code) ]_vars

\* C5 witness: the attribute check found a predicted failure, the log check
\* then counted logged errors, and the run still ended CRITICAL.
C5_Witness ==
  /\ pc = "exited"
  /\ prdfail > 0
  /\ logs > 0
  /\ code = NAGIOS_CRITICAL
  /\ exit_code = NAGIOS_CRITICAL

IsIdentify(call) == call.cdb.command = ATA_IDENTIFY_DEVICE
IsSmart(call) == call.cdb.command = ATA_SMART
Delivered(call) == call.ioctl_ret >= 0 /\ call.status = 0

\* C6: whenever a SMART command appears among the calls made so far, the
\* first call of the run was an IDENTIFY that was answered, and the answer
\* had bit 0 of word 82 and bit 0 of word 85 set.
C6_IdentifyBeforeSmart ==
  \A k \in 1 .. Len(calls) :
    IsSmart(calls[k]) =>
      /\ k > 1
      /\ IsIdentify(calls[1])
      /\ Delivered(calls[1])
      /\ identify.w82 % 2 = 1
      /\ identify.w85 % 2 = 1

\* C6 witness: the second call of the run is SMART READ DATA.
C6_Witness ==
  /\ Len(calls) >= 2
  /\ IsSmart(calls[2])
  /\ calls[2].cdb.features_7_0 = SMART_READ_DATA

\* C7: once IDENTIFY has been answered with bit 0 of word 82 clear, the
\* IDENTIFY stays the only call of the run, and the run is either about to
\* test word 82 or has ended with OK, whatever word 85 holds.
C7_UnsupportedEndsOk ==
  (/\ Len(calls) >= 1
   /\ Delivered(calls[1])
   /\ identify.w82 % 2 = 0) =>
     /\ Len(calls) = 1
     /\ IsIdentify(calls[1])
     /\ \/ pc = "check_supported"
        \/ pc = "exited" /\ exit_code = NAGIOS_OK

\* C7 witness: word 82 had bit 0 clear, word 85 had bit 0 set, and the run
\* ended OK after the one call.
C7_Witness ==
  /\ pc = "exited"
  /\ exit_code = NAGIOS_OK
  /\ Len(calls) = 1
  /\ Delivered(calls[1])
  /\ identify.w82 = 65534
  /\ identify.w85 = 1

\* C8 (as claimed): a run that has opened the device and has ended has
\* closed the handle.
C8_HandleClosed ==
  (pc = "exited" /\ fd \notin {"unopened", "failed"}) => fd = "closed"

\* C9: a call for which the SG_IO ioctl reported an error is the last call
\* of the run, the run has ended with UNKNOWN, and nothing was written to the
\* standard output.
C9_TransportFailure ==
  \A k \in 1 .. Len(calls) :
    calls[k].ioctl_ret < 0 =>
      /\ k = Len(calls)
      /\ pc = "exited"
      /\ exit_code = NAGIOS_UNKNOWN
      /\ stdout = <<>>

\* C9 witness: the third call, SMART READ THRESHOLDS, met the ioctl error.
C9_Witness ==
  /\ Len(calls) = 3
  /\ calls[3].cdb.features_7_0 = SMART_READ_THRESHOLDS
  /\ calls[3].ioctl_ret < 0
  /\ pc = "exited"

\* threshold strings main refuses: no ':' after the id, text after the value
MalformedStrings == { <<"5">>, <<"5", ":", "2", "x">> }

\* the command line holds only -d, -w and -c
OnlyValueOptions == \A k \in 1 .. Len(argv) : argv[k].opt \in {"d", "w", "c"}

\* no command was sent, nothing was counted, no status line was printed
NothingEvaluated ==
  /\ calls = <<>>
  /\ prdfail = 0 /\ advisory = 0 /\ crit = 0 /\ warn = 0
  /\ logs = 0
  /\ perfdata = <<>>
  /\ \A k \in 1 .. Len(stdout) : stdout[k] = <<"help">>

---------------------------------------------------------------------------
(* parse_thresholds() on its own: the run has read -d, -w and -c from the   *)
(* command line and is about to parse the -w argument; the -w argument     *)
(* ranges over every string of at most MaxLen characters of ParseAlphabet. *)

MaxLen == 4

ParseAlphabet == {"5", ":", ",", "x", "-"}

ParseStrings == UNION { [1 .. n -> ParseAlphabet] : n \in 0 .. MaxLen }

ParseCriticalStrings ==
  { <<>>,                                   \* no -c
    <<"5", ":", "2">>,                      \* 5:2
    <<":", "5">>,                           \* :5
    <<"5", ":", "x">> }                     \* 5:x

InitParse ==
  /\ pc = "parse_warning"
  /\ warning \in ParseStrings
  /\ critical \in ParseCriticalStrings
  /\ argv = <<Option("d", DevicePath), Option("w", warning), Option("c", critical)>>
  /\ optind = Len(argv) + 1
  /\ device = [null |-> FALSE, str |-> DevicePath]
  /\ warning_thresholds = EmptyMap
  /\ critical_thresholds = EmptyMap
  /\ fd = "unopened"
  /\ sg_version = [ret |-> 0, version |-> 0]
  /\ calls = <<>>
  /\ identify = [w82 |-> 0, w85 |-> 0]
  /\ sd = ZeroData
  /\ st = ZeroThresholds
  /\ i = 0
  /\ prdfail = 0 /\ advisory = 0 /\ crit = 0 /\ warn = 0
  /\ code = NAGIOS_OK
  /\ logs = 0
  /\ perfdata = <<>>
  /\ smart_log_sectors = 0
  /\ summaries = <<>>
  /\ stdout = <<>>
  /\ stderr = <<>>
  /\ exit_code = "running"

NextParse == ParseWarning \/ ParseCritical

SpecParse == InitParse /\ [][NextParse]_vars

RECURSIVE SplitAt(_, _)
\* the pieces of s between the occurrences of c; nothing follows a final c
SplitAt(s, c) ==
  IF s = <<>> THEN <<>>
  ELSE LET k == IndexOf(s, c, 1)
       IN IF k = 0 THEN <<s>>
          ELSE <<SubSeq(s, 1, k - 1)>> \o SplitAt(Drop(s, k), c)

\* a decimal integer: an optional sign, then one or more digits, nothing else
IsDecimal(f) ==
  LET u == IF f # <<>> /\ Head(f) \in {"-", "+"} THEN Tail(f) ELSE f
  IN u # <<>> /\ \A k \in 1 .. Len(u) : u[k] \in Digits

\* an element id:threshold with both fields decimal integers
WellFormedElement(e) ==
  LET k == IndexOf(e, ":", 1)
  IN /\ k # 0
     /\ IsDecimal(SubSeq(e, 1, k - 1))
     /\ IsDecimal(Drop(e, k))

\* some comma-separated element of s is not id:threshold
Malformed(s) ==
  \E k \in 1 .. Len(SplitAt(s, ",")) : ~WellFormedElement(SplitAt(s, ",")[k])

\* C11 (as claimed): once the -w argument has been parsed, a run whose -w
\* argument has a malformed element (no ':', a non-integer or empty id, a
\* non-integer or empty threshold, trailing characters) has ended with exit
\* code 3; the same holds for the -c argument once it has been parsed.
C11_MalformedRejected ==
  /\ (pc # "parse_warning" /\ Malformed(warning)) =>
        (pc = "exited" /\ exit_code = NAGIOS_UNKNOWN)
  /\ (pc \notin {"parse_warning", "parse_critical"} /\ Malformed(critical)) =>
        (pc = "exited" /\ exit_code = NAGIOS_UNKNOWN)

IsLogDirectoryRead(call) ==
  /\ IsSmart(call)
  /\ call.cdb.features_7_0 = SMART_READ_LOG
  /\ call.cdb.lba_7_0 = ATA_LOG_ADDRESS_DIRECTORY

\* C12: when the log directory has been read and its entry for the summary
\* log is 0, check_smart_log returns at once: logs stays 0, code is left as
\* it was, and from then on no further call is made; the summary log read is
\* only ever reached with a non-zero sector count.
C12_EmptyLogShortCircuit ==
  [][ /\ (pc = "read_log_directory" /\ pc' # "exited" /\ smart_log_sectors' = 0) =>
           /\ pc' = "print"
           /\ logs = 0 /\ logs' = 0
           /\ code' = code
           /\ Len(calls') = Len(calls) + 1
           /\ IsLogDirectoryRead(calls'[Len(calls')])
      /\ (pc \in {"print", "close"} /\ smart_log_sectors = 0) =>
           (calls' = calls /\ logs' = 0 /\ code' = code)
      /\ (pc' = "read_log") => smart_log_sectors' # 0 ]_vars

\* C12 witness: a run that found the directory entry 0 has ended after four
\* calls, the last one the directory read, with no logged errors.
C12_Witness ==
  /\ pc = "exited"
  /\ fd = "closed"
  /\ Len(calls) = 4
  /\ IsLogDirectoryRead(calls[4])
  /\ smart_log_sectors = 0
  /\ logs = 0
  /\ exit_code = code

\* a + b on 64-bit values
U64Add(a, b) ==
  LET t1 == a[1] + b[1]
      t2 == a[2] + b[2] + (t1 \div Limb)
      t3 == a[3] + b[3] + (t2 \div Limb)
      t4 == a[4] + b[4] + (t3 \div Limb)
  IN <<t1 % Limb, t2 % Limb, t3 % Limb, t4 % Limb>>

RECURSIVE WrittenRange(_, _, _)
\* the sum, as a 64-bit value, of the count fields of the sectors lo .. hi
\* whose index byte is not 0
WrittenRange(sectors, lo, hi) ==
  IF lo > hi THEN U64Zero
  ELSE IF lo = hi
  THEN (IF sectors[lo].index # 0 THEN U64Small(sectors[lo].count) ELSE U64Zero)
  ELSE LET mid == (lo + hi) \div 2
       IN U64Add(WrittenRange(sectors, lo, mid), WrittenRange(sectors, mid + 1, hi))

\* the sum of the count fields of the sectors whose index byte is not 0
WrittenSectorsCount(sectors) == WrittenRange(sectors, 1, Len(sectors))

\* the reported count is this number
CountIs(n, sum) == n >= 0 /\ U64Small(n) = sum

IsLogSummaryRead(call) ==
  /\ IsSmart(call)
  /\ call.cdb.features_7_0 = SMART_READ_LOG
  /\ call.cdb.lba_7_0 = ATA_LOG_ADDRESS_SMART

\* C13 (as claimed): when the directory entry is N > 0 and check_smart_log
\* has returned, N summary sectors were asked for and read, and logs is the
\* sum of the count fields of exactly those of them whose index byte is
\* non-zero.
C13_LogCountSum ==
  (pc \in {"print", "close"} /\ smart_log_sectors > 0) =>
     /\ IsLogSummaryRead(calls[Len(calls)])
     /\ calls[Len(calls)].cdb.count_15_8 * 256 + calls[Len(calls)].cdb.count_7_0
          = smart_log_sectors
     /\ Len(summaries) = smart_log_sectors
     /\ CountIs(logs, WrittenSectorsCount(summaries))

\* both checks have returned
Evaluated == pc \in {"print", "close"} \/ (pc = "exited" /\ fd = "closed")

\* C14: once both checks have returned, a non-zero logs makes code at least
\* WARNING; with prdfail = 0 and crit = 0 code is not CRITICAL; with all four
\* attribute counters 0 code is WARNING when logs is non-zero and OK
\* otherwise; and that code is what the run exits with.
C14_LogSeverity ==
  Evaluated =>
    /\ logs # 0 => code >= NAGIOS_WARNING
    /\ (prdfail = 0 /\ crit = 0) => code # NAGIOS_CRITICAL
    /\ (prdfail = 0 /\ crit = 0 /\ advisory = 0 /\ warn = 0) =>
          code = IF logs # 0 THEN NAGIOS_WARNING ELSE NAGIOS_OK
    /\ pc = "exited" => exit_code = code

\* C14 witness: no attribute counted, errors were logged, the run ended
\* with WARNING.
C14_Witness ==
  /\ pc = "exited"
  /\ fd = "closed"
  /\ prdfail = 0 /\ crit = 0 /\ advisory = 0 /\ warn = 0
  /\ logs > 0
  /\ exit_code = NAGIOS_WARNING

---------------------------------------------------------------------------
(* The SmartAttribute constructor in the loop: the run is at the last slot *)
(* with every earlier slot unused; the id and the three 16-bit parts of    *)
(* the raw field of the last slot range over RawIds and RawLimbs.          *)

RawIds == {1, 3, 5, 9, 190, 194, 196, 240, 255}

RawLimbs == {0, 1, 255, 256, 65535}

RawCriticalStrings ==
  { <<>>,                                   \* no -c
    \* 5:65536,9:16777216,194:256,1:65536
    <<"5", ":", "6", "5", "5", "3", "6", ",", "9", ":", "1", "6", "7",
      "7", "7", "2", "1", "6", ",", "1", "9", "4", ":", "2", "5", "6",
      ",", "1", ":", "6", "5", "5", "3", "6">> }

RawWarningStrings ==
  { <<>>,                                   \* no -w
    \* 5:255,9:65535,194:1,1:1
    <<"5", ":", "2", "5", "5", ",", "9", ":", "6", "5", "5", "3", "5",
      ",", "1", "9", "4", ":", "1", ",", "1", ":", "1">> }

InitRaw ==
  /\ pc = "attributes"
  /\ warning \in RawWarningStrings
  /\ critical \in RawCriticalStrings
  /\ argv = <<Option("d", DevicePath), Option("w", warning), Option("c", critical)>>
  /\ optind = Len(argv) + 1
  /\ device = [null |-> FALSE, str |-> DevicePath]
  /\ warning_thresholds = parse_thresholds(EmptyMap, warning).thresholds
  /\ critical_thresholds = parse_thresholds(EmptyMap, critical).thresholds
  /\ fd = "open"
  /\ sg_version = [ret |-> 0, version |-> SG_MIN_VERSION]
  /\ calls = <<Call(ata_identify, Good), Call(ata_smart_read_data, Good),
               Call(ata_smart_read_thresholds, Good)>>
  /\ identify = [w82 |-> 1, w85 |-> 1]
  /\ \E id \in RawIds, l1 \in RawLimbs, l2 \in RawLimbs, hi \in RawLimbs :
       sd = [s \in Slots |-> IF s = SMART_ATTRIBUTE_NUM - 1
                             THEN RawAttribute(id, 0, 100, <<l1, l2>>, hi)
                             ELSE RawAttribute(0, 0, 0, <<0, 0>>, 0)]
  /\ st = ThresholdPage(10)
  /\ i = SMART_ATTRIBUTE_NUM - 1
  /\ prdfail = 0 /\ advisory = 0 /\ crit = 0 /\ warn = 0
  /\ code = NAGIOS_OK
  /\ logs = 0
  /\ perfdata = <<>>
  /\ smart_log_sectors = 0
  /\ summaries = <<>>
  /\ stdout = <<>>
  /\ stderr = <<>>
  /\ exit_code = "running"

NextRaw == CheckAttribute \/ DetermineState

SpecRaw == InitRaw /\ [][NextRaw]_vars

\* the number of low bits of the raw value an id keeps
KeptBits(id) ==
  IF id \in {3, 5, 196} THEN 16
  ELSE IF id \in {9, 240} THEN 24
  ELSE IF id \in {190, 194} THEN 8
  ELSE 48

\* limb k (bits 16(k-1) .. 16k-1) of a value cut down to its low n bits
CutLimb(limb, k, n) ==
  IF n >= 16 * k THEN limb
  ELSE IF n <= 16 * (k - 1) THEN 0
  ELSE limb % (2 ^ (n - 16 * (k - 1)))

\* (raw_hi << 32) | raw_lo of a slot, cut down to the bits its id keeps
ExpectedRaw(slot) ==
  <<CutLimb(slot.raw_lo[1], 1, KeptBits(slot.id)),
    CutLimb(slot.raw_lo[2], 2, KeptBits(slot.id)),
    CutLimb(slot.raw_hi, 3, KeptBits(slot.id)),
    0>>

\* C15: evaluating a slot with non-zero id appends one performance-data
\* entry whose raw value is (raw_hi << 32) | raw_lo cut to 16 bits for ids
\* 3, 5, 196, to 24 bits for ids 9, 240, to 8 bits for ids 190, 194 and left
\* whole (below 2^48) for every other id; and that same value is the one
\* compared with a non-zero critical or warning level of the id.
C15_MaskedRaw ==
  [][ (AtSlot /\ sd[i].id # 0) =>
        LET raw == ExpectedRaw(sd[i])
            cl  == MapAt(critical_thresholds, sd[i].id)
            wl  == MapAt(warning_thresholds, sd[i].id)
        IN /\ Len(perfdata') = Len(perfdata) + 1
           /\ perfdata'[Len(perfdata')].id = sd[i].id
           /\ perfdata'[Len(perfdata')].raw = raw
           /\ ~U64IsZero(cl) => ((crit' = crit + 1) <=> U64Geq(raw, cl))
           /\ (~U64IsZero(wl) /\ ~(~U64IsZero(cl) /\ U64Geq(raw, cl))) =>
                 ((warn' = warn + 1) <=> U64Geq(raw, wl)) ]_vars

\* C15 witness: id 9 with every raw bit set was reported as 2^24 - 1 and did
\* not reach the critical level 16777216 given for it.
C15_Witness ==
  /\ pc = "attributes" /\ i = SMART_ATTRIBUTE_NUM
  /\ sd[SMART_ATTRIBUTE_NUM - 1].id = 9
  /\ sd[SMART_ATTRIBUTE_NUM - 1].raw_lo = <<65535, 65535>>
  /\ sd[SMART_ATTRIBUTE_NUM - 1].raw_hi = 65535
  /\ critical # <<>>
  /\ Len(perfdata) = 1
  /\ perfdata[1].raw = <<65535, 255, 0, 0>>
  /\ crit = 0

\* the level given for id in a parsed override map, an empty field for none
GivenLevel(given, id) == IF id \in DOMAIN given THEN given[id] ELSE <<>>

\* C16 (as claimed): a slot with id 0 changes none of the four counters and
\* adds nothing to the performance data; a slot with non-zero id appends
\* exactly one entry, carrying its id, its masked raw value and the warning
\* and critical levels given for the id, or an empty field where none was
\* given.
C16_UnusedSlotSkipped ==
  [][ AtSlot =>
        IF sd[i].id = 0
        THEN UNCHANGED <<prdfail, advisory, crit, warn, perfdata>>
        ELSE perfdata' = Append(perfdata,
                                [id   |-> sd[i].id,
                                 raw  |-> MaskedRaw(i),
                                 warn |-> GivenLevel(GivenWarning, sd[i].id),
                                 crit |-> GivenLevel(GivenCritical, sd[i].id)]) ]_vars

\* C17: whether a slot with non-zero id is counted as a vendor failure is
\* decided by the threshold at the same index of the threshold page and by
\* nothing else of that page: prdfail + advisory grows by 1 exactly when the
\* value is valid and at most st[i].threshold, whatever id that threshold
\* slot carries and whatever the other threshold slots hold.
C17_ThresholdByPosition ==
  [][ (AtSlot /\ sd[i].id # 0) =>
        (prdfail' + advisory') - (prdfail + advisory) =
           Bump(/\ sd[i].value > 0
                /\ sd[i].value < 254
                /\ sd[i].value <= st[i].threshold) ]_vars

\* C17 witness: slot 28 holds id 5 at value 10 against a threshold slot of
\* id 0 and threshold 10, while slot 29 of the threshold page carries id 5
\* with threshold 0; slot 28 was counted.
C17_Witness ==
  /\ pc = "attributes" /\ i = SMART_ATTRIBUTE_NUM - 1
  /\ sd[SMART_ATTRIBUTE_NUM - 2] = PreFailAtThreshold
  /\ st[SMART_ATTRIBUTE_NUM - 2] = RawThreshold(0, 10)
  /\ st[SMART_ATTRIBUTE_NUM - 1] = RawThreshold(5, 0)
  /\ prdfail = 1

\* the byte at an offset of a command block
ByteAt(bytes, offset) == bytes[offset + 1]

\* a command block as the claim describes it
ClaimedBlock(b) ==
  /\ Len(b) = 16
  /\ ByteAt(b, 0) = 133 /\ ByteAt(b, 1) = 8 /\ ByteAt(b, 2) = 14
  /\ ByteAt(b, 3) = 0
  /\ ByteAt(b, 7) = 0 /\ ByteAt(b, 9) = 0 /\ ByteAt(b, 11) = 0
  /\ ByteAt(b, 13) = 0 /\ ByteAt(b, 15) = 0
  /\ \/ /\ ByteAt(b, 14) = 236
        /\ ByteAt(b, 4) = 0
        /\ ByteAt(b, 8) = 0 /\ ByteAt(b, 10) = 0 /\ ByteAt(b, 12) = 0
     \/ /\ ByteAt(b, 14) = 176
        /\ ByteAt(b, 4) \in {208, 209, 213}
        /\ ByteAt(b, 10) = 79 /\ ByteAt(b, 12) = 194
        /\ IF ByteAt(b, 4) = 213
           THEN ByteAt(b, 8) \in {ATA_LOG_ADDRESS_DIRECTORY, ATA_LOG_ADDRESS_SMART}
           ELSE ByteAt(b, 8) = 0

\* C18 (as claimed): every command block handed to the kernel, on every
\* build of the program, is the 16 bytes 0x85, 0x08, 0x0E, ... with one ATA
\* opcode at offset 14, the SMART feature byte at offset 4, the SMART
\* signature 0x4F / 0xC2 in LBA 15:8 / 23:16, the log address in LBA 7:0,
\* and every unused field zero.
C18_CommandBlockBytes ==
  \A k \in 1 .. Len(calls) : \A host \in Hosts :
    ClaimedBlock(CdbBytes(calls[k].cdb, host))

---------------------------------------------------------------------------
(* check_smart_attributes() as a function of its inputs, for comparing the *)
(* outcome of two runs over the same pages                                 *)

RECURSIVE AttributeLoop(_, _, _, _, _, _)
\* the for loop of lines 1103-1141 from slot k on; n holds the four counters
AttributeLoop(data, thresholds, warnings, criticals, k, n) ==
  IF k = SMART_ATTRIBUTE_NUM THEN n
  ELSE LET attribute == SmartAttribute(data[k])
           threshold == SmartThreshold(SlotThreshold(thresholds, k))
           crit_threshold == MapAt(criticals, getID(attribute))
           warn_threshold == MapAt(warnings, getID(attribute))
           failed == VendorFailed(attribute, threshold)
           m == [prdfail  |-> n.prdfail
                              + Bump(failed /\ getPreFail(attribute)),
                 advisory |-> n.advisory
                              + Bump(failed /\ ~getPreFail(attribute)),
                 crit     |-> n.crit
                              + Bump(CriticalHit(attribute, crit_threshold)),
                 warn     |-> n.warn
                              + Bump(WarningHit(attribute, crit_threshold,
                                                warn_threshold))]
       IN AttributeLoop(data, thresholds, warnings, criticals, k + 1,
                        IF idValid(attribute) THEN m ELSE n)

\* the code check_smart_attributes leaves, started from state
check_smart_attributes(data, thresholds, warnings, criticals, state) ==
  LET n == AttributeLoop(data, thresholds, warnings, criticals, 0,
                         [prdfail |-> 0, advisory |-> 0, crit |-> 0, warn |-> 0])
  IN StateToReport(state, n.prdfail, n.advisory, n.crit, n.warn)

\* the map with one more entry
MapWith(thresholds, key, level) ==
  [x \in DOMAIN thresholds \cup {key} |-> IF x = key THEN level ELSE thresholds[x]]

ExtraIds == {5, 187}
ExtraLevels == {U64Small(0), U64Small(1), U64Small(2)}
LogTotals == {0, 3}

\* some slot with non-zero id carries this id and a masked raw value >= level
MatchesSomeSlot(id, level) ==
  \E s \in Slots : sd[s].id = id /\ id # 0 /\ U64Geq(MaskedRaw(s), level)

\* C19: when check_smart_attributes has returned, its code is the one the
\* function gives for the run's pages and maps; and for every id that was
\* given no critical override and every level that some slot of that id
\* reaches, the final code of the same run with that critical override added
\* is not lower, whatever the error log adds up to.
C19_CriticalOverrideMonotonic ==
  pc = "read_log_directory" =>
    LET warnings  == GivenWarning
        criticals == GivenCritical
    IN /\ code = check_smart_attributes(sd, st, warnings, criticals, NAGIOS_OK)
       /\ \A id \in ExtraIds \ DOMAIN criticals, level \in ExtraLevels :
            MatchesSomeSlot(id, level) =>
              LET with == check_smart_attributes(sd, st, warnings,
                                                 MapWith(criticals, id, level),
                                                 NAGIOS_OK)
              IN \A total \in LogTotals :
                   LogState(with, total) >= LogState(code, total)

\* C19 witness: the run counted id 5 as a warning only and ended the
\* attribute check at WARNING; with a critical override 5:1 added the slot
\* counts as critical instead and the code is CRITICAL.
C19_Witness ==
  /\ pc = "read_log_directory"
  /\ code = NAGIOS_WARNING
  /\ prdfail = 0 /\ advisory = 0 /\ crit = 0 /\ warn = 1
  /\ 5 \notin DOMAIN GivenCritical
  /\ MatchesSomeSlot(5, U64Small(1))
  /\ check_smart_attributes(sd, st, GivenWarning,
                            MapWith(GivenCritical, 5, U64Small(1)),
                            NAGIOS_OK) = NAGIOS_CRITICAL

---------------------------------------------------------------------------
(* The device buffers as a build of either byte order reads them *)

\* the smart_attribute structures of a data page as the host loads them
HostPage(host, data) ==
  [s \in Slots |-> [data[s] EXCEPT !.flags  = NativeLoad16(host, @),
                                   !.raw_lo = NativeLoad32(host, @),
                                   !.raw_hi = NativeLoad16(host, @)]]

\* the four counters of the run's attribute check on a build for host
HostCounters(host) ==
  AttributeLoop(HostPage(host, sd), st, warning_thresholds, critical_thresholds,
                0, [prdfail |-> 0, advisory |-> 0, crit |-> 0, warn |-> 0])

\* identify[82] / identify[85], the directory entry and a summary count as
\* the build for host decodes them
HostWord(host, wire) == StorageEndianSwapOn(host, 2, NativeLoad16(host, wire))

\* C20 (as claimed): on a build for either byte order the run decodes the
\* same response bytes to the same values: the IDENTIFY words, the log
\* directory entry and the summary counts come out as their little-endian
\* reading, and when the attribute check has returned, the counters and the
\* raw value of every slot are the ones of the little-endian reading.
C20_HostIndependent ==
  \A host \in Hosts :
    /\ HostWord(host, identify.w82) = identify.w82
    /\ HostWord(host, identify.w85) = identify.w85
    /\ HostWord(host, smart_log_sectors) = smart_log_sectors
    /\ \A k \in 1 .. Len(summaries) :
         HostWord(host, summaries[k].count) = summaries[k].count
    /\ pc = "read_log_directory" =>
         /\ HostCounters(host) = [prdfail |-> prdfail, advisory |-> advisory,
                                  crit |-> crit, warn |-> warn]
         /\ \A s \in Slots :
              getRaw(SmartAttribute(HostPage(host, sd)[s])) = MaskedRaw(s)

---------------------------------------------------------------------------
(* What the transport returned and what the run did with it *)

\* the kernel completed the call with fewer bytes than the buffer length
ShortResponse(call) == call.ioctl_ret >= 0 /\ call.resid # 0

\* C21 (as claimed): a call whose response was shorter than the expected
\* length is the last call of the run, nothing of its buffer is evaluated,
\* and the run has ended with a status that is none of OK, WARNING, CRITICAL.
C21_LengthMismatchRejected ==
  \A k \in 1 .. Len(calls) :
    ShortResponse(calls[k]) =>
      /\ k = Len(calls)
      /\ pc = "exited"
      /\ exit_code \notin Severities

IsReadData(call) == IsSmart(call) /\ call.cdb.features_7_0 = SMART_READ_DATA

IsReadThresholds(call) ==
  IsSmart(call) /\ call.cdb.features_7_0 = SMART_READ_THRESHOLDS

\* C22: the calls of a run are, in this order, IDENTIFY, SMART READ DATA,
\* SMART READ THRESHOLDS, SMART READ LOG of the directory (1 sector) and,
\* only when the directory entry is non-zero, SMART READ LOG of the summary
\* log; a call is made only after every earlier one has returned without an
\* ioctl error; no slot is evaluated before the data and thresholds reads
\* have returned; and a run in which both checks have returned has made 4
\* calls when the directory entry is 0 and 5 otherwise.
C22_CallOrder ==
  /\ Len(calls) <= 5
  /\ \A k \in 1 .. Len(calls) :
       /\ k = 1 => IsIdentify(calls[k])
       /\ k = 2 => IsReadData(calls[k])
       /\ k = 3 => IsReadThresholds(calls[k])
       /\ k = 4 => (IsLogDirectoryRead(calls[k])
                      /\ calls[k].cdb.count_15_8 = 0 /\ calls[k].cdb.count_7_0 = 1)
       /\ k = 5 => (IsLogSummaryRead(calls[k]) /\ smart_log_sectors # 0)
       /\ k < Len(calls) => calls[k].ioctl_ret >= 0
  /\ (pc = "attributes" \/ i > 0 \/ perfdata # <<>>) =>
       (Len(calls) >= 3 /\ calls[2].ioctl_ret >= 0 /\ calls[3].ioctl_ret >= 0)
  /\ Evaluated => Len(calls) = (IF smart_log_sectors = 0 THEN 4 ELSE 5)

\* C22 witness: a run that found a directory entry of 2 sectors has ended
\* after five calls, the last one the read of the summary log.
C22_Witness ==
  /\ pc = "exited"
  /\ fd = "closed"
  /\ smart_log_sectors = 2
  /\ Len(calls) = 5
  /\ IsLogSummaryRead(calls[5])

---------------------------------------------------------------------------
(* check_smart_log() on its own: the run has evaluated a data page with no *)
(* attribute in use, has read the log directory and is about to read the   *)
(* summary log; the directory entry ranges over LogSectorCounts.           *)

LogSectorCounts == {1, 2, 255, 256, 32769, 65535}

NoAttributes == DataPage(Unused, Unused)

InitLog ==
  /\ pc = "read_log"
  /\ argv = <<Option("d", DevicePath)>>
  /\ optind = Len(argv) + 1
  /\ device = [null |-> FALSE, str |-> DevicePath]
  /\ warning = <<>>
  /\ critical = <<>>
  /\ warning_thresholds = EmptyMap
  /\ critical_thresholds = EmptyMap
  /\ fd = "open"
  /\ sg_version = [ret |-> 0, version |-> SG_MIN_VERSION]
  /\ calls = <<Call(ata_identify, Good), Call(ata_smart_read_data, Good),
               Call(ata_smart_read_thresholds, Good),
               Call(ata_smart_read_log_directory, Good)>>
  /\ identify = [w82 |-> 1, w85 |-> 1]
  /\ sd = NoAttributes
  /\ st = ThresholdPage(10)
  /\ i = SMART_ATTRIBUTE_NUM
  /\ prdfail = 0 /\ advisory = 0 /\ crit = 0 /\ warn = 0
  /\ code = NAGIOS_OK
  /\ logs = 0
  /\ perfdata = <<>>
  /\ smart_log_sectors \in LogSectorCounts
  /\ summaries = <<>>
  /\ stdout = <<>>
  /\ stderr = <<>>
  /\ exit_code = "running"

NextLog == ReadLogSummaries \/ CountLogs \/ PrintResults \/ CloseDevice

SpecLog == InitLog /\ [][NextLog]_vars

\* the count bytes and the buffer length of a command stand for n sectors
AsksFor(cmd, n) ==
  /\ cmd.cdb.count_15_8 \in 0 .. 255
  /\ cmd.cdb.count_7_0 \in 0 .. 255
  /\ cmd.cdb.count_15_8 * 256 + cmd.cdb.count_7_0 = n
  /\ cmd.dxfer_len = n * 512

\* C23: SMART READ LOG of n sectors carries n in its two count bytes and
\* n * 512 as its buffer length, for n at the ends of 0 .. 65535 and at the
\* byte boundary; IDENTIFY, SMART READ DATA, SMART READ THRESHOLDS and the
\* directory read ask for 1 sector and 512 bytes; and the summary read of a
\* run asks for as many sectors as the directory entry says.
C23_SectorCount ==
  /\ \A n \in {0, 1, 255, 256, 257, 32769, 65535} :
       AsksFor(ata_smart_read_log(ATA_LOG_ADDRESS_SMART, n), n)
  /\ \A k \in 1 .. Len(calls) :
       IF k = 5 THEN IsLogSummaryRead(calls[k]) /\ AsksFor(calls[k], smart_log_sectors)
       ELSE AsksFor(calls[k], 1)

\* C23 witness: the directory entry was 65535 and the summary read went out
\* with both count bytes 0xFF and a buffer of 33553920 bytes.
C23_Witness ==
  /\ smart_log_sectors = 65535
  /\ Len(calls) = 5
  /\ calls[5].cdb.count_15_8 = 255
  /\ calls[5].cdb.count_7_0 = 255
  /\ calls[5].dxfer_len = 33553920

\* C30 (as claimed): when check_smart_log has returned for a directory entry
\* N > 0, the reported count is not negative and is the exact sum of the
\* count fields of the written sectors, and with no attribute counted the
\* severity is WARNING exactly when that exact sum is non-zero.
C30_LogCountExact ==
  (pc = "print" /\ smart_log_sectors > 0) =>
     /\ logs >= 0
     /\ CountIs(logs, WrittenSectorsCount(summaries))
     /\ (prdfail = 0 /\ advisory = 0 /\ crit = 0 /\ warn = 0) =>
          (code = NAGIOS_WARNING <=> ~U64IsZero(WrittenSectorsCount(summaries)))

---------------------------------------------------------------------------
(* How a run ends *)

\* C24: once IDENTIFY has been answered with bit 0 of word 82 set and bit 0
\* of word 85 clear, the IDENTIFY stays the only call of the run, and the
\* run is either still testing the two words or has ended with UNKNOWN after
\* printing that the SMART feature set is disabled.
C24_DisabledEndsUnknown ==
  (/\ Len(calls) >= 1
   /\ Delivered(calls[1])
   /\ identify.w82 % 2 = 1
   /\ identify.w85 % 2 = 0) =>
     /\ Len(calls) = 1
     /\ IsIdentify(calls[1])
     /\ \/ pc \in {"check_supported", "check_enabled"}
        \/ /\ pc = "exited"
           /\ exit_code = NAGIOS_UNKNOWN
           /\ stdout = <<<<"UNKNOWN: SMART feature set disabled">>>>

\* C24 witness: word 82 was 1, word 85 was 0xFFFE, and the run ended UNKNOWN
\* after the one call.
C24_Witness ==
  /\ pc = "exited"
  /\ exit_code = NAGIOS_UNKNOWN
  /\ Len(calls) = 1
  /\ Delivered(calls[1])
  /\ identify.w82 = 1
  /\ identify.w85 = 65534

\* the ioctl succeeded and the command completed with a non-zero SCSI status
Refused(call) == call.ioctl_ret >= 0 /\ call.status # 0

\* the status line of the end of main was printed
StatusLinePrinted ==
  \E k \in 1 .. Len(stdout) : stdout[k][1] \in {"OK", "WARNING", "CRITICAL"}

\* C25 (as claimed): after a SMART command that completed with a non-zero
\* SCSI status nothing of its buffer is evaluated (no slot is counted after
\* a refused data or thresholds read, no summary read follows a refused
\* directory read, no error is counted after a refused summary read), no
\* status line is printed, and the run does not end with OK, WARNING or
\* CRITICAL.
C25_RefusedNotEvaluated ==
  \A k \in 1 .. Len(calls) :
    (IsSmart(calls[k]) /\ Refused(calls[k])) =>
      /\ (IsReadData(calls[k]) \/ IsReadThresholds(calls[k])) =>
            (i = 0 /\ perfdata = <<>>
             /\ prdfail = 0 /\ advisory = 0 /\ crit = 0 /\ warn = 0)
      /\ IsLogDirectoryRead(calls[k]) => k = Len(calls)
      /\ IsLogSummaryRead(calls[k]) => logs = 0
      /\ ~StatusLinePrinted
      /\ pc = "exited" => exit_code \notin Severities

\* C26: a run whose IDENTIFY completed with a non-zero SCSI status has made
\* no other call, has not stored or tested the identify words, and has
\* ended with OK after printing that the ATA command set is unsupported.
C26_IdentifyRefusedEndsOk ==
  (Len(calls) >= 1 /\ Refused(calls[1])) =>
     /\ Len(calls) = 1
     /\ IsIdentify(calls[1])
     /\ identify = [w82 |-> 0, w85 |-> 0]
     /\ pc = "exited"
     /\ exit_code = NAGIOS_OK
     /\ stdout = <<<<"OK: ATA command set unsupported">>>>

\* C26 witness: IDENTIFY met CHECK CONDITION and the run ended OK.
C26_Witness ==
  /\ Len(calls) = 1
  /\ IsIdentify(calls[1])
  /\ calls[1].ioctl_ret = 0
  /\ calls[1].status = 2
  /\ pc = "exited"
  /\ exit_code = NAGIOS_OK

\* C27 (as claimed): a run that has ended with exit code 1 has been through
\* both checks and the close of the handle, and found prdfail = 0 and
\* crit = 0 together with advisory > 0 or warn > 0 or logs > 0.
C27_WarningOnlyFromTelemetry ==
  (pc = "exited" /\ exit_code = NAGIOS_WARNING) =>
     /\ fd = "closed"
     /\ StatusLinePrinted
     /\ prdfail = 0 /\ crit = 0
     /\ (advisory > 0 \/ warn > 0 \/ logs > 0)

\* every element of the string s is accepted by the loop over the elements
Parses(s) == ParsePairs(SplitPairs(IStream(s), <<>>), EmptyMap).ok

\* the map that loop builds from s
Built(s) == ParsePairs(SplitPairs(IStream(s), <<>>), EmptyMap).thresholds

\* every entry of the map given is in the map held
Holds(held, given) ==
  \A k \in DOMAIN given : k \in DOMAIN held /\ held[k] = given[k]

\* C28: whenever the device has been opened, or its opening attempted, or a
\* command sent, both the -w and the -c string have parsed and both maps
\* hold what was given; and a run given only -d, -w and -c, with a device,
\* whose -w or -c string does not parse has ended with exit code 3 with the
\* device never opened and no command sent.
C28_ParsedBeforeOpen ==
  /\ (fd # "unopened" \/ calls # <<>>) =>
        /\ Parses(warning) /\ Parses(critical)
        /\ Holds(warning_thresholds, Built(warning))
        /\ Holds(critical_thresholds, Built(critical))
  /\ (/\ pc = "exited"
      /\ OnlyValueOptions
      /\ ~device.null
      /\ (~Parses(warning) \/ ~Parses(critical))) =>
        /\ exit_code = NAGIOS_UNKNOWN
        /\ fd = "unopened"
        /\ calls = <<>>

\* C28 witness: the warning string (the default, empty) parsed, the -c
\* string did not, and the run ended UNKNOWN with the device never opened.
C28_Witness ==
  /\ pc = "exited"
  /\ exit_code = NAGIOS_UNKNOWN
  /\ ~device.null
  /\ Parses(warning)
  /\ critical # <<>> /\ ~Parses(critical)
  /\ fd = "unopened"
  /\ calls = <<>>

---------------------------------------------------------------------------
(* The ids an override string names *)

\* the integers in front of the ':' of the elements of s, as strtol reads them
GivenIds(s) ==
  LET tokens == SplitPairs(IStream(s), <<>>)
  IN { strtol(getline(IStream(tokens[k]), <<>>, ":").str).val :
         k \in 1 .. Len(tokens) }

\* the id of a slot is one of the integers s names
NamedIn(s, id) == U64Small(id) \in GivenIds(s)

\* C29 (as claimed): evaluating a slot with non-zero id a, the warn counter
\* grows and the entry written carries a warning level only if the -w string
\* names the integer a itself, and likewise for crit and the -c string; an
\* id such as 261 influences no slot.
C29_OverrideById ==
  [][ (AtSlot /\ sd[i].id # 0) =>
        /\ (warn' # warn) => NamedIn(warning, sd[i].id)
        /\ (crit' # crit) => NamedIn(critical, sd[i].id)
        /\ (perfdata'[Len(perfdata')].warn # <<>>) => NamedIn(warning, sd[i].id)
        /\ (perfdata'[Len(perfdata')].crit # <<>>) => NamedIn(critical, sd[i].id) ]_vars

=============================================================================
